---- MODULE Spec2Model ----
(***************************************************************************)
(* DeepMITRE: the validation / sanitization pipeline (utils.py), the       *)
(* sliding-window RateLimiter (utils.py) and the upload handler with the   *)
(* rate-limited gateway call_serve_api (app.py).                           *)
(*                                                                         *)
(* Strings are tuples of one-character strings.  A DataFrame is a record   *)
(* [columns, rows]: columns is the tuple of column labels, each row a      *)
(* tuple of cells aligned with it.  A cell is a record with a type field:  *)
(* "str" (field s), "int" (field v) or "float" (fields neg, whole, frac:    *)
(* the sign, the integer part and the digits after the point).             *)
(***************************************************************************)
EXTENDS Integers, Sequences, FiniteSets, TLC

\* ------------------------------------------------------------ bounds
MaxCalls == 2        \* RateLimiter.max_calls of the modelled limiter
TimeWindow == 2      \* RateLimiter.time_window, in clock ticks
MaxTime == 3         \* the clock stops advancing here
MaxRows == 2         \* longest table enumerated row by row

\* ------------------------------------------------------------ strings
Digits == <<"0", "1", "2", "3", "4", "5", "6", "7", "8", "9">>

IsDigit(c) == \E i \in 1..10 : Digits[i] = c

DigitVal(c) == (CHOOSE i \in 1..10 : Digits[i] = c) - 1

HexLetters == {"a", "b", "c", "d", "e", "f", "A", "B", "C", "D", "E", "F"}

AllDigits(s) == \A i \in 1..Len(s) : IsDigit(s[i])

RECURSIVE DecVal(_)
DecVal(s) == IF s = <<>> THEN 0
             ELSE 10 * DecVal(SubSeq(s, 1, Len(s) - 1)) + DigitVal(s[Len(s)])

RECURSIVE NatStr(_)
NatStr(n) == IF n < 10 THEN <<Digits[n + 1]>>
             ELSE NatStr(n \div 10) \o <<Digits[(n % 10) + 1]>>

\* s.split(sep): the pieces of s between occurrences of the character sep
RECURSIVE Split(_, _)
Split(s, sep) ==
    IF \A i \in 1..Len(s) : s[i] # sep THEN <<s>>
    ELSE LET k == CHOOSE i \in 1..Len(s) :
                      s[i] = sep /\ \A j \in 1..(i - 1) : s[j] # sep
         IN  <<SubSeq(s, 1, k - 1)>> \o Split(SubSeq(s, k + 1, Len(s)), sep)

\* the digits after the point as str(float) prints them: no trailing zeros,
\* at least one digit
RECURSIVE TrimZeros(_)
TrimZeros(f) ==
    IF Len(f) > 1 /\ f[Len(f)] = "0" THEN TrimZeros(SubSeq(f, 1, Len(f) - 1)) ELSE f

\* str(value) of a cell
Str(cell) ==
    CASE cell.type = "str" -> cell.s
      [] cell.type = "int" ->
            IF cell.v < 0 THEN <<"-">> \o NatStr(0 - cell.v) ELSE NatStr(cell.v)
      [] OTHER ->
            (IF cell.neg THEN <<"-">> ELSE <<>>)
                \o NatStr(cell.whole) \o <<".">> \o TrimZeros(cell.frac)

\* ------------------------------------------------------------ NetflowValidator
PORT_MIN == 0
PORT_MAX == 65535

IsNumber(cell) == cell.type \in {"int", "float"}

FracZero(cell) == \A i \in 1..Len(cell.frac) : cell.frac[i] = "0"

\* cell >= n and cell <= n for a numeric cell and an integer n
NumGeq(cell, n) ==
    IF cell.type = "int" THEN cell.v >= n
    ELSE IF cell.neg
         THEN cell.whole < 0 - n \/ (cell.whole = 0 - n /\ FracZero(cell))
         ELSE cell.whole >= n

NumLeq(cell, n) ==
    IF cell.type = "int" THEN cell.v <= n
    ELSE IF cell.neg
         THEN cell.whole >= 0 - n
         ELSE cell.whole < n \/ (cell.whole = n /\ FracZero(cell))

\* ipaddress.IPv4Address: four decimal octets, no leading zeros, each <= 255
IsOctet(p) ==
    /\ Len(p) \in 1..3
    /\ AllDigits(p)
    /\ (Len(p) > 1 => p[1] # "0")
    /\ DecVal(p) <= 255

IsIPv4(s) ==
    LET parts == Split(s, ".")
    IN  Len(parts) = 4 /\ \A i \in 1..4 : IsOctet(parts[i])

\* ipaddress.IPv6Address without embedded IPv4 and scope id: hextets of one to
\* four hex digits, eight of them, or fewer around a single "::"
IsHextet(p) ==
    /\ Len(p) \in 1..4
    /\ \A i \in 1..Len(p) : IsDigit(p[i]) \/ p[i] \in HexLetters

IsIPv6(s) ==
    LET parts == Split(s, ":")
        n == Len(parts)
        empties == {i \in 1..n : parts[i] = <<>>}
        inner == {i \in empties : 1 < i /\ i < n}
    IN  /\ n \in 3..9
        /\ \A i \in (1..n) \ empties : IsHextet(parts[i])
        /\ IF empties = {} THEN n = 8
           ELSE /\ Cardinality(inner) = 1
                /\ n <= 8 \/ 1 \in empties \/ n \in empties
                /\ (1 \in empties => 2 \in empties)
                /\ (n \in empties => (n - 1) \in empties)

validate_ip(ip) == IsIPv4(ip) \/ IsIPv6(ip)

validate_port(port) ==
    IsNumber(port) /\ NumGeq(port, PORT_MIN) /\ NumLeq(port, PORT_MAX)

validate_numeric(value) == IsNumber(value) /\ NumGeq(value, 0)

\* TIMESTAMP_FORMATS, each a tuple of strptime directives and literal characters
TIMESTAMP_FORMATS ==
    << <<"%Y", "-", "%m", "-", "%d", " ", "%H", ":", "%M", ":", "%S">>,
       <<"%Y", "-", "%m", "-", "%d", "T", "%H", ":", "%M", ":", "%S">>,
       <<"%Y", "/", "%m", "/", "%d", " ", "%H", ":", "%M", ":", "%S">> >>

Directives == {"%Y", "%m", "%d", "%H", "%M", "%S"}

\* the widths a directive may consume and the values it accepts (strptime's
\* regular expressions: %Y four digits, the others one or two)
DirectiveWidths(tok) == IF tok = "%Y" THEN {4} ELSE {1, 2}

DirectiveAccepts(tok, digits) ==
    LET v == DecVal(digits)
    IN  CASE tok = "%Y" -> v >= 1
          [] tok = "%m" -> v \in 1..12
          [] tok = "%d" -> v \in 1..31
          [] tok = "%H" -> IF Len(digits) = 2 THEN v \in 0..23 ELSE TRUE
          [] tok = "%M" -> v \in 0..59
          [] OTHER -> v \in 0..59

\* the ways s matches fmt, each the tuple of directive values found, in the
\* order of fmt; empty when s does not match
RECURSIVE Parse(_, _)
Parse(s, fmt) ==
    IF fmt = <<>> THEN (IF s = <<>> THEN {<<>>} ELSE {})
    ELSE LET tok == Head(fmt)
         IN  IF tok \in Directives
             THEN UNION {
                     { <<DecVal(SubSeq(s, 1, w))>> \o rest :
                           rest \in Parse(SubSeq(s, w + 1, Len(s)), Tail(fmt)) } :
                     w \in { x \in DirectiveWidths(tok) :
                               /\ Len(s) >= x
                               /\ AllDigits(SubSeq(s, 1, x))
                               /\ DirectiveAccepts(tok, SubSeq(s, 1, x)) } }
             ELSE IF tok = " "
             THEN UNION {
                     Parse(SubSeq(s, k + 1, Len(s)), Tail(fmt)) :
                     k \in { x \in 1..Len(s) : \A j \in 1..x : s[j] = " " } }
             ELSE IF s # <<>> /\ s[1] = tok
                  THEN Parse(Tail(s), Tail(fmt))
                  ELSE {}

IsLeap(y) == (y % 4 = 0 /\ y % 100 # 0) \/ y % 400 = 0

DaysIn(y, m) ==
    IF m = 2 THEN (IF IsLeap(y) THEN 29 ELSE 28)
    ELSE IF m \in {4, 6, 9, 11} THEN 30 ELSE 31

\* datetime.strptime(timestamp, fmt) returns (does not raise ValueError)
Strptime(timestamp, fmt) ==
    \E f \in Parse(timestamp, fmt) : f[3] <= DaysIn(f[1], f[2])

\* first format that parses wins
validate_timestamp(timestamp) ==
    \E i \in 1..Len(TIMESTAMP_FORMATS) : Strptime(timestamp, TIMESTAMP_FORMATS[i])

\* ------------------------------------------------------------ tables
\* A column label is [name, upper, pad]: name is the label lower-cased and
\* trimmed, upper says that it holds upper-case letters, pad that it has
\* leading or trailing whitespace.
Label(name) == [name |-> name, upper |-> FALSE, pad |-> FALSE]

Lower(label) == [label EXCEPT !.upper = FALSE]

Strip(label) == [label EXCEPT !.pad = FALSE]

SeqRange(q) == {q[i] : i \in 1..Len(q)}

\* pandas type inference of one CSV field
IsIntText(s) ==
    LET d == IF s # <<>> /\ s[1] = "-" THEN Tail(s) ELSE s
    IN  d # <<>> /\ AllDigits(d)

IsFloatText(s) ==
    LET d == IF s # <<>> /\ s[1] = "-" THEN Tail(s) ELSE s
        parts == Split(d, ".")
    IN  /\ Len(parts) = 2
        /\ parts[1] # <<>> /\ AllDigits(parts[1])
        /\ parts[2] # <<>> /\ AllDigits(parts[2])

IntCell(s) ==
    [type |-> "int",
     v |-> IF s[1] = "-" THEN 0 - DecVal(Tail(s)) ELSE DecVal(s)]

FloatCell(s) ==
    LET neg == s[1] = "-"
        parts == Split(IF neg THEN Tail(s) ELSE s, ".")
    IN  [type |-> "float", neg |-> neg, whole |-> DecVal(parts[1]),
         frac |-> IF Len(parts) = 2 THEN parts[2] ELSE <<"0">>]

StrCell(s) == [type |-> "str", s |-> s]

\* pd.read_csv: the header row gives the labels; a column whose fields are all
\* integers is int64, all numbers float64, otherwise object (strings)
ColumnTexts(csv, j) == {csv.rows[i][j] : i \in 1..Len(csv.rows)}

ColumnDtype(csv, j) ==
    LET texts == ColumnTexts(csv, j)
    IN  IF texts = {} THEN "object"
        ELSE IF \A x \in texts : IsIntText(x) THEN "int64"
        ELSE IF \A x \in texts : IsIntText(x) \/ IsFloatText(x) THEN "float64"
        ELSE "object"

ReadCell(text, dtype) ==
    CASE dtype = "int64" -> IntCell(text)
      [] dtype = "float64" -> FloatCell(text)
      [] OTHER -> StrCell(text)

\* read_csv raises on a file without a header row
ReadCsvRaises(csv) == csv.header = <<>>

read_csv(csv) ==
    LET dtypes == [j \in 1..Len(csv.header) |-> ColumnDtype(csv, j)]
    IN  [columns |-> csv.header,
         rows |-> [i \in 1..Len(csv.rows) |->
                      [j \in 1..Len(csv.header) |->
                          ReadCell(csv.rows[i][j], dtypes[j])]]]

\* ------------------------------------------------------------ sanitize_dataframe
\* the checks of one row, in the order of the code
RowChecks ==
    << [field |-> "src_ip", kind |-> "ip", what |-> "Invalid source IP"],
       [field |-> "dest_ip", kind |-> "ip", what |-> "Invalid destination IP"],
       [field |-> "src_port", kind |-> "port", what |-> "Invalid source port"],
       [field |-> "dest_port", kind |-> "port", what |-> "Invalid destination port"],
       [field |-> "timestamp", kind |-> "timestamp", what |-> "Invalid timestamp"],
       [field |-> "flow_dur", kind |-> "numeric", what |-> "Invalid flow_dur"],
       [field |-> "fwd_bytes", kind |-> "numeric", what |-> "Invalid fwd_bytes"],
       [field |-> "bwd_bytes", kind |-> "numeric", what |-> "Invalid bwd_bytes"],
       [field |-> "total_bwd_pkts", kind |-> "numeric", what |-> "Invalid total_bwd_pkts"],
       [field |-> "total_fwd_pkts", kind |-> "numeric", what |-> "Invalid total_fwd_pkts"] >>

\* clean_df.rename(columns={column: column.lower().strip()}) for every column
Renamed(columns) == [j \in 1..Len(columns) |-> Strip(Lower(columns[j]))]

\* row[field]: the positions of the label field; empty is a KeyError
Positions(columns, field) == {j \in 1..Len(columns) : columns[j] = Label(field)}

HasField(columns, field) == Positions(columns, field) # {}

Lookup(columns, row, field) == row[CHOOSE j \in Positions(columns, field) : TRUE]

CheckPasses(check, cell) ==
    CASE check.kind = "ip" -> validate_ip(Str(cell))
      [] check.kind = "port" -> validate_port(cell)
      [] check.kind = "timestamp" -> validate_timestamp(Str(cell))
      [] OTHER -> validate_numeric(cell)

\* str(KeyError(field)): the field name in quotes
KeyErrorStr(field) == <<"'", field, "'">>

MissingError(field) ==
    [what |-> "Missing required column: ", arg |-> KeyErrorStr(field)]

InvalidError(check, idx, cell) ==
    [what |-> check.what, row |-> idx, value |-> Str(cell)]

\* RowErrors that goes on with the row's checks after a KeyError
RECURSIVE RowErrorsContinue(_, _, _, _)
RowErrorsContinue(columns, row, idx, k) ==
    IF k > Len(RowChecks) THEN <<>>
    ELSE LET check == RowChecks[k]
         IN  IF ~HasField(columns, check.field)
             THEN <<MissingError(check.field)>>
                      \o RowErrorsContinue(columns, row, idx, k + 1)
             ELSE LET cell == Lookup(columns, row, check.field)
                  IN  (IF CheckPasses(check, cell) THEN <<>>
                       ELSE <<InvalidError(check, idx, cell)>>)
                          \o RowErrorsContinue(columns, row, idx, k + 1)

\* the errors of one row from check k on: the try block of the row loop; a
\* KeyError ends the row's checks
RECURSIVE RowErrors(_, _, _, _)
RowErrors(columns, row, idx, k) ==
    IF k > Len(RowChecks) THEN <<>>
    ELSE LET check == RowChecks[k]
         IN  IF ~HasField(columns, check.field)
             THEN <<MissingError(check.field)>>
             ELSE LET cell == Lookup(columns, row, check.field)
                  IN  (IF CheckPasses(check, cell) THEN <<>>
                       ELSE <<InvalidError(check, idx, cell)>>)
                          \o RowErrors(columns, row, idx, k + 1)

\* the row loop over rows lo..hi: the rows' errors in row order, idx the
\* RangeIndex label (from 0); the range is halved so that the nesting stays
\* logarithmic in the number of rows
RECURSIVE TableErrors(_, _, _, _)
TableErrors(columns, rows, lo, hi) ==
    IF lo > hi THEN <<>>
    ELSE IF lo = hi THEN RowErrors(columns, rows[lo], lo - 1, 1)
    ELSE LET mid == (lo + hi) \div 2
         IN  TableErrors(columns, rows, lo, mid)
                 \o TableErrors(columns, rows, mid + 1, hi)

\* StripTags with the greedy pattern <.*>: from a "<" to the last ">"
RECURSIVE StripTagsGreedy(_)
StripTagsGreedy(x) ==
    IF x = <<>> THEN <<>>
    ELSE IF x[1] = "<" /\ \E j \in 2..Len(x) : x[j] = ">"
         THEN LET k == CHOOSE j \in 2..Len(x) :
                           x[j] = ">" /\ \A m \in (j + 1)..Len(x) : x[m] # ">"
              IN  StripTagsGreedy(SubSeq(x, k + 1, Len(x)))
         ELSE <<x[1]>> \o StripTagsGreedy(Tail(x))

\* re.sub(r'<[^>]*>', '', x)
RECURSIVE StripTags(_)
StripTags(x) ==
    IF x = <<>> THEN <<>>
    ELSE IF x[1] = "<" /\ \E j \in 2..Len(x) : x[j] = ">"
         THEN LET k == CHOOSE j \in 2..Len(x) :
                           x[j] = ">" /\ \A m \in 2..(j - 1) : x[m] # ">"
              IN  StripTags(SubSeq(x, k + 1, Len(x)))
         ELSE <<x[1]>> \o StripTags(Tail(x))

\* select_dtypes(include=['object']).columns: the columns holding strings
StringColumns(table) ==
    {j \in 1..Len(table.columns) :
        table.rows = <<>> \/ \E i \in 1..Len(table.rows) : table.rows[i][j].type = "str"}

\* clean_df[col].astype(str).apply(strip tags) on the string columns
StripColumns(table) ==
    LET string_columns == StringColumns(table)
    IN  [i \in 1..Len(table.rows) |->
            [j \in 1..Len(table.columns) |->
                IF j \in string_columns
                THEN StrCell(StripTags(Str(table.rows[i][j])))
                ELSE table.rows[i][j]]]

sanitize_dataframe(df) ==
    LET columns == Renamed(df.columns)
    IN  [df |-> [columns |-> columns, rows |-> StripColumns(df)],
         errors |-> TableErrors(columns, df.rows, 1, Len(df.rows))]

\* ------------------------------------------------------------ uploads
REQUIRED_COLUMNS ==
    <<"timestamp", "flow_dur", "src_ip", "dest_ip", "dest_port", "src_port",
      "fwd_bytes", "bwd_bytes", "total_bwd_pkts", "total_fwd_pkts">>

RowLimit == 100

\* the fields of the sample rows: the required columns and a free-text one
FieldNames == REQUIRED_COLUMNS \o <<"note">>

GoodRow ==
    [timestamp |-> <<"2", "0", "2", "4", "-", "0", "1", "-", "1", "3", " ", "1", "0", ":", "2", "0", ":", "3", "0">>,
     flow_dur |-> <<"1", "2">>,
     src_ip |-> <<"1", "0", ".", "0", ".", "0", ".", "1">>,
     dest_ip |-> <<":", ":", "1">>,
     dest_port |-> <<"4", "4", "3">>,
     src_port |-> <<"5", "0", "0", "0">>,
     fwd_bytes |-> <<"1", "0">>,
     bwd_bytes |-> <<"0">>,
     total_bwd_pkts |-> <<"1">>,
     total_fwd_pkts |-> <<"2">>,
     note |-> <<"o", "k">>]

BadRow ==
    [timestamp |-> <<"1", "3", "/", "0", "1", "/", "2", "0", "2", "4">>,
     flow_dur |-> <<"-", "1">>,
     src_ip |-> <<"9", "9", "9", ".", "9", "9", "9", ".", "9", "9", "9", ".", "9", "9", "9">>,
     dest_ip |-> <<"n", "o", "t", "-", "a", "n", "-", "i", "p">>,
     dest_port |-> <<"6", "5", "5", "3", "6">>,
     src_port |-> <<"8", "0", ".", "5">>,
     fwd_bytes |-> <<"x">>,
     bwd_bytes |-> <<"7">>,
     total_bwd_pkts |-> <<"3">>,
     total_fwd_pkts |-> <<"4">>,
     note |-> <<"<", "b", ">", "x", "<", "/", "b", ">">>]

TagRow ==
    [timestamp |-> <<"2", "0", "2", "4", "/", "0", "1", "/", "1", "3", " ", "1", "0", ":", "2", "0", ":", "3", "0">>,
     flow_dur |-> <<"0", ".", "5">>,
     src_ip |-> <<"<", "i", ">", "1", "0", ".", "0", ".", "0", ".", "1", "<", "/", "i", ">">>,
     dest_ip |-> <<"f", "e", "8", "0", ":", ":", "1", ":", "2">>,
     dest_port |-> <<"0">>,
     src_port |-> <<"6", "5", "5", "3", "5">>,
     fwd_bytes |-> <<"1">>,
     bwd_bytes |-> <<"2">>,
     total_bwd_pkts |-> <<"3">>,
     total_fwd_pkts |-> <<"4">>,
     note |-> <<"<", "s", "c", "r", "i", "p", "t", ">", "a", "l", "e", "r", "t", "(", "1", ")", "<", "/", "s", "c", "r", "i", "p", "t", ">", "b", "e", "n", "i", "g", "n">>]

SampleRows == <<GoodRow, BadRow, TagRow>>

\* sample header rows: every label as the schema spells it; labels in upper
\* case and padded; headers that lack required columns; no header row at all.
\* The labels of a header stay distinct when lower-cased and trimmed.
Without(names, gone) == SelectSeq(names, LAMBDA n : n \notin gone)

PlainHeader(names) == [j \in 1..Len(names) |-> Label(names[j])]

ShoutHeader(names) ==
    [j \in 1..Len(names) |->
        [name |-> names[j], upper |-> TRUE, pad |-> (j % 2 = 1)]]

SampleHeaders ==
    << PlainHeader(FieldNames),
       ShoutHeader(FieldNames),
       PlainHeader(Without(FieldNames, {"dest_port"})),
       ShoutHeader(Without(FieldNames, {"src_ip", "flow_dur", "note"})),
       <<>> >>

\* An uploaded file is named by [header, rows]: the index of its header row in
\* SampleHeaders and the indices of its rows in SampleRows.  FileCsv is the
\* file itself: the header labels and, per row, the text of each field.
FileCsv(file) ==
    LET header == SampleHeaders[file.header]
    IN  [header |-> header,
         rows |-> [i \in 1..Len(file.rows) |->
                      [j \in 1..Len(header) |->
                          SampleRows[file.rows[i]][header[j].name]]]]

Repeat(x, n) == [i \in 1..n |-> x]

RowSeqs == UNION {[1..n -> 1..Len(SampleRows)] : n \in 0..MaxRows}

\* the files a session may upload: every short table over the sample rows
\* under every sample header, long uniform tables around the row limit, and
\* a file with no header row
LongFiles ==
    { [header |-> 1, rows |-> Repeat(1, 5)],
      [header |-> 1, rows |-> Repeat(1, RowLimit)],
      [header |-> 2, rows |-> Repeat(2, RowLimit)],
      [header |-> 1, rows |-> Repeat(1, RowLimit + 1)],
      [header |-> 2, rows |-> Repeat(3, RowLimit + 1)],
      [header |-> 3, rows |-> Repeat(1, 5)] }

Files ==
    {[header |-> h, rows |-> r] : h \in 1..4, r \in RowSeqs}
        \cup LongFiles \cup {[header |-> 5, rows |-> <<>>]}

\* the file the concurrent sessions of the limiter specification upload
SessionFiles == {[header |-> 1, rows |-> <<1>>]}

\* uploaded_file is None
NoFile == [header |-> 0, rows |-> <<>>]

\* ------------------------------------------------------------ upload handling
NoTable == [columns |-> <<>>, rows |-> <<>>]

\* df.to_dict(orient='records'): one mapping from label to value per row
ToRecords(table) ==
    [i \in 1..Len(table.rows) |->
        [c \in SeqRange(table.columns) |->
            table.rows[i][CHOOSE j \in 1..Len(table.columns) : table.columns[j] = c]]]

\* [col for col in REQUIRED_COLUMNS if col.lower() not in df.columns.str.lower()]
MissingColumns(table) ==
    SelectSeq(REQUIRED_COLUMNS,
              LAMBDA col : Lower(Label(col)) \notin
                               {Lower(c) : c \in SeqRange(table.columns)})

\* Dispatch that tests the row limit only
DispatchNoSchema(table) ==
    IF Len(table.rows) <= RowLimit THEN "lock" ELSE "toolong"

\* what the script does with the sanitized table: report missing columns,
\* call the gateway, or report the row limit
Dispatch(table) ==
    IF MissingColumns(table) # <<>> THEN "missing"
    ELSE IF Len(table.rows) <= RowLimit THEN "lock"
    ELSE "toolong"

\* HandleUpload that stops the run when there are validation errors
HandleUploadStrict(csv) ==
    IF ReadCsvRaises(csv)
    THEN [df |-> NoTable, errors |-> <<>>, payload |-> <<>>, goto |-> "stopped"]
    ELSE LET res == sanitize_dataframe(read_csv(csv))
         IN  [df |-> res.df, errors |-> res.errors,
              payload |-> ToRecords(res.df),
              goto |-> IF res.errors # <<>> THEN "stopped" ELSE Dispatch(res.df)]

\* the script run of one upload up to the call of call_serve_api: read_csv and
\* sanitize_dataframe (an exception stops the run), payload, missing_columns
\* and the branch taken; "lock" is the wrapper entered, waiting for the lock
HandleUpload(csv) ==
    IF ReadCsvRaises(csv)
    THEN [df |-> NoTable, errors |-> <<>>, payload |-> <<>>, goto |-> "stopped"]
    ELSE LET res == sanitize_dataframe(read_csv(csv))
         IN  [df |-> res.df, errors |-> res.errors,
              payload |-> ToRecords(res.df), goto |-> Dispatch(res.df)]

\* HandleUpload of every sample file
Handled == [file \in Files |-> HandleUpload(FileCsv(file))]

\* ------------------------------------------------------------ state
Threads == {"t1", "t2"}

NoThread == "none"

VARIABLES
    clock,      \* time.time(), taken to be non-decreasing
    calls,      \* api_rate_limiter.calls, head (oldest) first
    lock,       \* holder of api_rate_limiter.lock, or NoThread
    pc,         \* where each session's script run stands
    now,        \* the local now of each wrapper invocation
    uploaded,   \* the file each session's script run works on
    posted,     \* requests.post calls of each session's script run
    appended,   \* timestamps each session's script run put in calls
    admitted    \* every timestamp ever admitted, in order of admission

vars == <<clock, calls, lock, pc, now, uploaded, posted, appended, admitted>>

\* the locals of a session's script run, fixed by the file it works on
df(t) == Handled[uploaded[t]].df

errors(t) == Handled[uploaded[t]].errors

payload(t) == Handled[uploaded[t]].payload

Init ==
    /\ clock = 0
    /\ calls = <<>>
    /\ lock = NoThread
    /\ pc = [t \in Threads |-> "idle"]
    /\ now = [t \in Threads |-> 0]
    /\ uploaded = [t \in Threads |-> NoFile]
    /\ posted = [t \in Threads |-> 0]
    /\ appended = [t \in Threads |-> 0]
    /\ admitted = <<>>

\* a script run starts on an uploaded file and runs up to the gateway call
Upload(t, file) ==
    /\ pc[t] = "idle"
    /\ uploaded' = [uploaded EXCEPT ![t] = file]
    /\ posted' = [posted EXCEPT ![t] = 0]
    /\ appended' = [appended EXCEPT ![t] = 0]
    /\ pc' = [pc EXCEPT ![t] = Handled[file].goto]
    /\ UNCHANGED <<clock, calls, lock, now, admitted>>

\* ------------------------------------------------------------ RateLimiter wrapper
\* Acquire that does not wait for the lock
AcquireNoLock(t) ==
    /\ pc[t] = "lock"
    /\ lock' = t
    /\ pc' = [pc EXCEPT ![t] = "now"]
    /\ UNCHANGED <<clock, calls, now, uploaded, posted, appended, admitted>>

\* with self.lock: acquire
Acquire(t) ==
    /\ pc[t] = "lock"
    /\ lock = NoThread
    /\ lock' = t
    /\ pc' = [pc EXCEPT ![t] = "now"]
    /\ UNCHANGED <<clock, calls, now, uploaded, posted, appended, admitted>>

\* now = time.time()
ReadClock(t) ==
    /\ pc[t] = "now"
    /\ now' = [now EXCEPT ![t] = clock]
    /\ pc' = [pc EXCEPT ![t] = "evict"]
    /\ UNCHANGED <<clock, calls, lock, uploaded, posted, appended, admitted>>

\* Evict with the age test > instead of >=
EvictStrict(t) ==
    /\ pc[t] = "evict"
    /\ IF calls # <<>> /\ now[t] - calls[1] > TimeWindow
       THEN calls' = Tail(calls) /\ pc' = pc
       ELSE calls' = calls /\ pc' = [pc EXCEPT ![t] = "check"]
    /\ UNCHANGED <<clock, lock, now, uploaded, posted, appended, admitted>>

\* one test of the while loop: pop the head when it is time_window old
Evict(t) ==
    /\ pc[t] = "evict"
    /\ IF calls # <<>> /\ now[t] - calls[1] >= TimeWindow
       THEN calls' = Tail(calls) /\ pc' = pc
       ELSE calls' = calls /\ pc' = [pc EXCEPT ![t] = "check"]
    /\ UNCHANGED <<clock, lock, now, uploaded, posted, appended, admitted>>

\* if len(self.calls) >= self.max_calls: raise
Check(t) ==
    /\ pc[t] = "check"
    /\ pc' = [pc EXCEPT ![t] = IF Len(calls) >= MaxCalls THEN "raise" ELSE "append"]
    /\ UNCHANGED <<clock, calls, lock, now, uploaded, posted, appended, admitted>>

\* Raise that swallows the exception and goes on to the wrapped call
RaiseAndCall(t) ==
    /\ pc[t] = "raise"
    /\ lock' = NoThread
    /\ pc' = [pc EXCEPT ![t] = "func"]
    /\ UNCHANGED <<clock, calls, now, uploaded, posted, appended, admitted>>

\* the exception leaves the with block: the lock is released, the script run
\* ends with the exception
Raise(t) ==
    /\ pc[t] = "raise"
    /\ lock' = NoThread
    /\ pc' = [pc EXCEPT ![t] = "rejected"]
    /\ UNCHANGED <<clock, calls, now, uploaded, posted, appended, admitted>>

\* Record that puts the timestamp at the head (appendleft)
RecordAtHead(t) ==
    /\ pc[t] = "append"
    /\ calls' = <<now[t]>> \o calls
    /\ appended' = [appended EXCEPT ![t] = appended[t] + 1]
    /\ admitted' = Append(admitted, now[t])
    /\ pc' = [pc EXCEPT ![t] = "release"]
    /\ UNCHANGED <<clock, lock, now, uploaded, posted>>

\* self.calls.append(now)
Record(t) ==
    /\ pc[t] = "append"
    /\ calls' = Append(calls, now[t])
    /\ appended' = [appended EXCEPT ![t] = appended[t] + 1]
    /\ admitted' = Append(admitted, now[t])
    /\ pc' = [pc EXCEPT ![t] = "release"]
    /\ UNCHANGED <<clock, lock, now, uploaded, posted>>

\* Release that keeps the lock over the wrapped call (return inside the with)
ReleaseAfterCall(t) ==
    /\ pc[t] = "release"
    /\ lock' = lock
    /\ pc' = [pc EXCEPT ![t] = "func"]
    /\ UNCHANGED <<clock, calls, now, uploaded, posted, appended, admitted>>

\* end of the with block
Release(t) ==
    /\ pc[t] = "release"
    /\ lock' = NoThread
    /\ pc' = [pc EXCEPT ![t] = "func"]
    /\ UNCHANGED <<clock, calls, now, uploaded, posted, appended, admitted>>

\* ------------------------------------------------------------ call_serve_api
\* requests.post(..., json=[input_data]): the JSON body
RequestBody(input_data) == <<input_data>>

\* the outcomes of the POST: a 2xx answer with results, an HTTP error status
\* (call_serve_api returns None), a transport exception (propagates)
HttpOutcomes == {"results", "failed", "crashed"}

\* return func(*args, **kwargs): one POST of RequestBody(payload), and what
\* the script run does with the outcome
CallServeApi(t) ==
    /\ pc[t] = "func"
    /\ posted' = [posted EXCEPT ![t] = posted[t] + 1]
    /\ \E outcome \in HttpOutcomes : pc' = [pc EXCEPT ![t] = outcome]
    /\ UNCHANGED <<clock, calls, lock, now, uploaded, appended, admitted>>

\* the script run is over; the session may upload again
Terminal == {"stopped", "missing", "toolong", "rejected", "results", "failed", "crashed"}

Finish(t) ==
    /\ pc[t] \in Terminal
    /\ pc' = [pc EXCEPT ![t] = "idle"]
    /\ uploaded' = [uploaded EXCEPT ![t] = NoFile]
    /\ posted' = [posted EXCEPT ![t] = 0]
    /\ appended' = [appended EXCEPT ![t] = 0]
    /\ UNCHANGED <<clock, calls, lock, now, admitted>>

\* time passes
Tick ==
    /\ clock < MaxTime
    /\ clock' = clock + 1
    /\ UNCHANGED <<calls, lock, pc, now, uploaded, posted, appended, admitted>>

\* ------------------------------------------------------------ specifications
Wrapper(t) ==
    \/ Acquire(t)
    \/ ReadClock(t)
    \/ Evict(t)
    \/ Check(t)
    \/ Raise(t)
    \/ Record(t)
    \/ Release(t)
    \/ CallServeApi(t)
    \/ Finish(t)

\* concurrent sessions sharing the process-wide limiter
Next ==
    \/ Tick
    \/ \E t \in Threads :
          \/ \E file \in SessionFiles : Upload(t, file)
          \/ Wrapper(t)

Spec == Init /\ [][Next]_vars

\* one session uploading any of the sample files
NextApp ==
    \/ Tick
    \/ \E file \in Files : Upload("t1", file)
    \/ Wrapper("t1")

SpecApp == Init /\ [][NextApp]_vars

\* ------------------------------------------------------------ properties: limiter
\* the admitted timestamps younger than time_window at time n
Recent(n) == {i \in 1..Len(admitted) : n - admitted[i] < TimeWindow}

Occurrences(q, v) == Cardinality({i \in 1..Len(q) : q[i] = v})

InCall == {"func", "results", "failed", "crashed"}

\* C1: a call is rejected only when max_calls admitted calls are younger than
\* time_window at its now (so the first max_calls calls of a window, and any
\* call made once every admitted call is time_window old, are admitted), and
\* it is admitted only when fewer than max_calls are (so the call after
\* max_calls admitted ones in the same window is rejected)
C1_SlidingWindow ==
    \A t \in Threads :
        /\ pc[t] = "raise" => Cardinality(Recent(now[t])) >= MaxCalls
        /\ pc[t] = "append" => Cardinality(Recent(now[t])) < MaxCalls
        /\ (pc[t] \in {"raise", "append"} /\ Recent(now[t]) = {}) => pc[t] = "append"

\* max_calls calls admitted, one more rejected in their window, and a later
\* call admitted once the window has passed
C1_Witness ==
    \E t, u \in Threads :
        /\ pc[t] = "rejected"
        /\ pc[u] = "release"
        /\ Len(admitted) = MaxCalls + 1
        /\ \A i \in 1..MaxCalls : now[t] - admitted[i] < TimeWindow
        /\ admitted[MaxCalls + 1] = now[u]
        /\ now[u] - admitted[MaxCalls] >= TimeWindow

CriticalSection == {"now", "evict", "check", "raise", "append", "release"}

\* C2: one thread at a time is between acquiring and releasing the lock, and
\* no window of time_window ticks holds more than max_calls admitted calls
C2_AtomicAdmission ==
    /\ \A t \in Threads : pc[t] \in CriticalSection => lock = t
    /\ \A i \in 1..Len(admitted) :
          Cardinality({j \in 1..Len(admitted) :
                          /\ admitted[i] <= admitted[j]
                          /\ admitted[j] < admitted[i] + TimeWindow}) <= MaxCalls

\* two callers at the same instant with one slot left: one took it and is in
\* the wrapped call, the other was rejected
C2_Witness ==
    \E t, u \in Threads :
        /\ pc[t] = "func"
        /\ pc[u] = "rejected"
        /\ now[t] = now[u]
        /\ Len(calls) = MaxCalls
        /\ calls[Len(calls)] = now[t]

\* C3: a rejected call never posts and records no timestamp; a call that
\* reached the wrapped function posted once and recorded one timestamp
C3_RejectedNeverCalls ==
    \A t \in Threads :
        /\ pc[t] \in {"raise", "rejected"} => posted[t] = 0 /\ appended[t] = 0
        /\ pc[t] \in {"results", "failed", "crashed"} =>
              posted[t] = 1 /\ appended[t] = 1
        /\ posted[t] <= 1

C3_Witness ==
    \E t \in Threads :
        pc[t] = "rejected" /\ Len(calls) = MaxCalls /\ posted[t] = 0

\* C9: the wrapped call runs without the lock, after its timestamp was
\* recorded; the timestamp of a call in progress or over, failed or not, is
\* in the history for as long as it is younger than time_window
C9_CountedBeforeCall ==
    /\ \A t \in Threads : pc[t] \in InCall => lock # t /\ appended[t] = 1
    /\ \A v \in 0..MaxTime :
          clock - v < TimeWindow =>
              Occurrences(calls, v) >=
                  Cardinality({t \in Threads : pc[t] \in InCall /\ now[t] = v})

\* while one admitted call is in the wrapped function, holding the last slot,
\* another caller went through admission and was rejected
C9_Witness ==
    \E t, u \in Threads :
        /\ pc[t] = "func"
        /\ pc[u] = "rejected"
        /\ now[u] > now[t]
        /\ calls[Len(calls)] = now[t]

\* C10: the history is ordered oldest first, never longer than max_calls, and
\* after the eviction loop every entry is younger than time_window
C10_HistoryInvariant ==
    /\ \A i, j \in 1..Len(calls) : i < j => calls[i] <= calls[j]
    /\ Len(calls) <= MaxCalls
    /\ \A t \in Threads :
          pc[t] \in {"check", "raise", "append"} =>
              \A i \in 1..Len(calls) : now[t] - calls[i] < TimeWindow

\* after an eviction that left a younger entry in the history
C10_Witness ==
    \E t \in Threads :
        /\ pc[t] = "check"
        /\ calls # <<>>
        /\ Len(admitted) > Len(calls)
        /\ calls[1] < now[t]

\* ------------------------------------------------------------ properties: uploads
\* the header row of an uploaded file and the names its labels spell
FileHeader(file) == SampleHeaders[file.header]

HeaderNames(file) == {FileHeader(file)[j].name : j \in 1..Len(FileHeader(file))}

LacksRequired(file) == \E col \in SeqRange(REQUIRED_COLUMNS) : col \notin HeaderNames(file)

Running(t) == pc[t] # "idle" /\ uploaded[t].header \in 1..4

\* C4: a script run on a table that lacks a required column stops at read_csv
\* or ends in the missing-columns report: it makes no POST and records no
\* timestamp
C4_SchemaHaltsBeforeGateway ==
    \A t \in Threads :
        (pc[t] # "idle" /\ LacksRequired(uploaded[t])) =>
            pc[t] \in {"missing", "stopped"} /\ posted[t] = 0 /\ appended[t] = 0

\* a table with rows and every required column but dest_port was reported
C4_Witness ==
    /\ pc["t1"] = "missing"
    /\ uploaded["t1"] = [header |-> 3, rows |-> <<1, 2>>]
    /\ calls = <<>>

\* the valid sample row, five times, under the plain header
FiveValidRows == [header |-> 1, rows |-> Repeat(1, 5)]

\* C5: once the gateway call of the 5-row valid table is over, the sanitized
\* table has 5 rows, there are no validation errors, one POST was made and
\* its JSON body is an array of 5 elements
C5_FiveRowBatch ==
    \A t \in Threads :
        (uploaded[t] = FiveValidRows /\ pc[t] \in {"results", "failed", "crashed"}) =>
            /\ Len(df(t).rows) = 5
            /\ errors(t) = <<>>
            /\ posted[t] = 1
            /\ Len(RequestBody(payload(t))) = 5

\* the string of the claim and TagRow's note field, which holds it
ScriptText == <<"<", "s", "c", "r", "i", "p", "t", ">", "a", "l", "e", "r", "t", "(", "1", ")", "<", "/", "s", "c", "r", "i", "p", "t", ">", "b", "e", "n", "i", "g", "n">>

NoteOf(t, i) == Lookup(df(t).columns, df(t).rows[i], "note")

HasScriptRow(t) ==
    /\ Running(t)
    /\ uploaded[t].header \in {1, 2}
    /\ \E i \in 1..Len(uploaded[t].rows) : uploaded[t].rows[i] = 3

\* C6 as claimed: the field is sanitized to "benign"
C6_StripsToBenign ==
    \A t \in Threads :
        HasScriptRow(t) =>
            \A i \in 1..Len(uploaded[t].rows) :
                (SampleRows[uploaded[t].rows[i]].note = ScriptText) =>
                    NoteOf(t, i) = StrCell(<<"b", "e", "n", "i", "g", "n">>)

\* C6 amended: the tags are removed and the text between them stays: the
\* field is sanitized to "alert(1)benign"
C6_StripsTagsOnly ==
    \A t \in Threads :
        HasScriptRow(t) =>
            \A i \in 1..Len(uploaded[t].rows) :
                (SampleRows[uploaded[t].rows[i]].note = ScriptText) =>
                    NoteOf(t, i) = StrCell(<<"a", "l", "e", "r", "t", "(", "1", ")", "b", "e", "n", "i", "g", "n">>)

C6_Witness ==
    /\ pc["t1"] = "results"
    /\ uploaded["t1"] = [header |-> 2, rows |-> <<3>>]
    /\ SampleRows[3].note = ScriptText

IsMissingError(e) == e.what = "Missing required column: "

FirstMissingCheck(file) ==
    CHOOSE k \in 1..Len(RowChecks) :
        /\ RowChecks[k].field \notin HeaderNames(file)
        /\ \A m \in 1..(k - 1) : RowChecks[m].field \in HeaderNames(file)

\* the text of a field of row i of the file, as uploaded, and the sample
\* texts that are valid values of the fields checked before dest_port
FieldText(file, i, field) == SampleRows[file.rows[i]][field]

ValidSampleTexts ==
    [src_ip |-> {GoodRow.src_ip},
     dest_ip |-> {GoodRow.dest_ip, TagRow.dest_ip},
     src_port |-> {GoodRow.src_port, BadRow.src_port, TagRow.src_port}]

\* C7: when the table lacks a field the row checks read, every row gets one
\* "Missing required column: " error, naming the first such field in check
\* order (in the quotes that str(KeyError) puts around it); no check after it
\* is made for any row; and the checks before it are made for every row
C7_MissingFieldPerRow ==
    \A t \in Threads :
        (Running(t) /\ LacksRequired(uploaded[t])) =>
            LET file == uploaded[t]
                k0 == FirstMissingCheck(file)
                errs == errors(t)
                missing == SelectSeq(errs, IsMissingError)
                invalid == {errs[n] : n \in {m \in 1..Len(errs) : ~IsMissingError(errs[m])}}
            IN  /\ Len(missing) = Len(file.rows)
                /\ \A n \in 1..Len(missing) :
                      missing[n] = [what |-> "Missing required column: ",
                                    arg |-> <<"'", RowChecks[k0].field, "'">>]
                /\ \A e \in invalid :
                      \E k \in 1..(k0 - 1) : e.what = RowChecks[k].what
                /\ \A i \in 1..Len(file.rows) : \A k \in 1..(k0 - 1) :
                      (\E e \in invalid : e.row = i - 1 /\ e.what = RowChecks[k].what)
                          <=> FieldText(file, i, RowChecks[k].field)
                                  \notin ValidSampleTexts[RowChecks[k].field]

\* an invalid row and a valid one in a table without dest_port: the invalid
\* addresses of the first row are reported, and the missing column for both
C7_Witness ==
    /\ pc["t1"] = "missing"
    /\ uploaded["t1"] = [header |-> 3, rows |-> <<2, 1>>]
    /\ Len(errors("t1")) = 4

HasAllRequired(file) == ~LacksRequired(file)

Submitted ==
    {"lock", "now", "evict", "check", "raise", "append", "release", "func",
     "rejected", "results", "failed", "crashed"}

\* C8: a script run on a table with every required column and at most 100
\* rows enters the gated call, whatever its validation errors
C8_ErrorsAreAdvisory ==
    \A t \in Threads :
        (Running(t) /\ HasAllRequired(uploaded[t]) /\ Len(uploaded[t].rows) <= RowLimit) =>
            /\ pc[t] \in Submitted
            /\ (pc[t] \in {"results", "failed", "crashed"} => posted[t] = 1)

\* a table of 100 invalid rows was posted
C8_Witness ==
    /\ pc["t1"] = "results"
    /\ uploaded["t1"] = [header |-> 2, rows |-> Repeat(2, RowLimit)]
    /\ errors("t1") # <<>>
    /\ posted["t1"] = 1

====
